---- MODULE Spec2Model ----
(***************************************************************************)
(* State reducer of the falling-note rhythm game (src/src/state.ts, with   *)
(* the data model and constants of types.ts, src/unnamed/part_000).        *)
(*                                                                         *)
(* A note is the record [id, column, cy]: the fields the reducer reads.    *)
(* The remaining NoteProps fields (pitch, velocity, ...) are only copied.  *)
(* An optional note (NoteProps | null) is a sequence of length 0 or 1.     *)
(* multiplier is kept in tenths (10 stands for 1.0, 12 for 1.2), which is  *)
(* exact for every value toPrecision(2) can return below 100.              *)
(***************************************************************************)
EXTENDS Integers, Sequences, FiniteSets

VARIABLES gameEnd, userNotes, exitNotes, playNote, backgroundNote,
          score, highScore, multiplier, consecutiveNoteCount,
          lastAction, ticksSinceSpawn

vars == <<gameEnd, userNotes, exitNotes, playNote, backgroundNote,
          score, highScore, multiplier, consecutiveNoteCount,
          lastAction, ticksSinceSpawn>>

---------------------------------------------------------------------------
(* Constants (types.ts) *)
ANIMATION_PER_TICK == 1
SCORE_PER_CLICK == 5
MAX_Y == 350
THRESHOLD_Y == 30
RANDOM_COLUMN == 5

(* Bounds of the model *)
MaxId == 1
MaxLane == 1
MaxNotes == 2
MaxFall == 2
MaxScore == 6
MaxStreak == 10

---------------------------------------------------------------------------
(* Helpers *)
Max(a, b) == IF a >= b THEN a ELSE b

Null == <<>>

Some(n) == <<n>>

Ids(seq) == {seq[i].id : i \in 1..Len(seq)}

State ==
    [gameEnd |-> gameEnd, userNotes |-> userNotes, exitNotes |-> exitNotes,
     playNote |-> playNote, backgroundNote |-> backgroundNote,
     score |-> score, highScore |-> highScore, multiplier |-> multiplier,
     consecutiveNoteCount |-> consecutiveNoteCount]

Becomes(s) ==
    /\ gameEnd' = s.gameEnd
    /\ userNotes' = s.userNotes
    /\ exitNotes' = s.exitNotes
    /\ playNote' = s.playNote
    /\ backgroundNote' = s.backgroundNote
    /\ score' = s.score
    /\ highScore' = s.highScore
    /\ multiplier' = s.multiplier
    /\ consecutiveNoteCount' = s.consecutiveNoteCount

---------------------------------------------------------------------------
(* tick and its parts *)

\* variant: the note is copied without advancing
updateAnimation_still(note) == note

updateAnimation(note) == [note EXCEPT !.cy = note.cy + ANIMATION_PER_TICK]

updatedNotes(state, noteToPlay) ==
    LET kept == IF noteToPlay # Null
                THEN SelectSeq(state.userNotes,
                               LAMBDA note : note.id # noteToPlay[1].id)
                ELSE state.userNotes
    IN  [i \in 1..Len(kept) |-> updateAnimation(kept[i])]

\* variant: a note on row MAX_Y is still active
activeNotes_inclusive(updated) == SelectSeq(updated, LAMBDA note : note.cy <= MAX_Y)

activeNotes(updated) == SelectSeq(updated, LAMBDA note : note.cy < MAX_Y)

\* variant: only notes past MAX_Y count as missed
missedNotes_past(updated) == SelectSeq(updated, LAMBDA note : note.cy > MAX_Y)

\* variant: notes past MAX_Y count as missed too
missedNotes_atOrPast(updated) == SelectSeq(updated, LAMBDA note : note.cy >= MAX_Y)

missedNotes(updated) == SelectSeq(updated, LAMBDA note : note.cy = MAX_Y)

newScore(state, missed) == state.score - (Len(missed) * SCORE_PER_CLICK)

\* variant: the score is not floored at 0
clampedScore_noFloor(ns) == ns

clampedScore(ns) == Max(0, ns)

\* variant: the high score is never raised
newHighScore_stale(ns, state) == state.highScore

newHighScore(ns, state) == Max(ns, state.highScore)

\* variant: an idle tick resets the streak
newConsecutiveNoteCount_idleReset(state, noteToPlay, missed) ==
    IF noteToPlay # Null /\ noteToPlay[1].column = RANDOM_COLUMN
    THEN state.consecutiveNoteCount
    ELSE IF Len(missed) = 0
         THEN (IF noteToPlay # Null THEN state.consecutiveNoteCount + 1 ELSE 0)
         ELSE (IF noteToPlay # Null THEN 1 ELSE 0)

\* variant: any miss resets the streak to 0, also when a note was played
newConsecutiveNoteCount_zeroOnMiss(state, noteToPlay, missed) ==
    IF noteToPlay # Null /\ noteToPlay[1].column = RANDOM_COLUMN
    THEN state.consecutiveNoteCount
    ELSE IF Len(missed) = 0
         THEN (IF noteToPlay # Null THEN state.consecutiveNoteCount + 1
                                    ELSE state.consecutiveNoteCount)
         ELSE 0

newConsecutiveNoteCount(state, noteToPlay, missed) ==
    IF noteToPlay # Null /\ noteToPlay[1].column = RANDOM_COLUMN
    THEN state.consecutiveNoteCount
    ELSE IF Len(missed) = 0
         THEN (IF noteToPlay # Null THEN state.consecutiveNoteCount + 1
                                    ELSE state.consecutiveNoteCount)
         ELSE (IF noteToPlay # Null THEN 1 ELSE 0)

\* Number.prototype.toPrecision(2) followed by parseFloat, on a value given
\* in tenths: two significant digits, ties away from zero.
toPrecision2(t) ==
    IF t < 100 THEN t
    ELSE IF t < 1000 THEN ((t + 5) \div 10) * 10
    ELSE ((t + 50) \div 100) * 100

\* variant: the base 1 and the floor at 1 are missing
newMultiplier_noBase(count) == toPrecision2((count \div 10) * 2)

newMultiplier(count) == Max(10, toPrecision2(10 + (count \div 10) * 2))

\* variant: the multiplier is computed from the updated streak
tick_newStreak(state, noteToPlay) ==
    LET updated == updatedNotes(state, noteToPlay)
        missed == missedNotes(updated)
        ns == newScore(state, missed)
        count == newConsecutiveNoteCount(state, noteToPlay, missed)
    IN  [state EXCEPT
            !.userNotes = activeNotes(updated),
            !.exitNotes = state.userNotes,
            !.playNote = noteToPlay,
            !.score = clampedScore(ns),
            !.highScore = newHighScore(ns, state),
            !.multiplier = newMultiplier(count),
            !.consecutiveNoteCount = count]

\* variant: exitNotes holds only the notes that are no longer active
tick_exitLeft(state, noteToPlay) ==
    LET updated == updatedNotes(state, noteToPlay)
        missed == missedNotes(updated)
        ns == newScore(state, missed)
        active == activeNotes(updated)
    IN  [state EXCEPT
            !.userNotes = active,
            !.exitNotes = SelectSeq(state.userNotes,
                                    LAMBDA note : note.id \notin Ids(active)),
            !.playNote = noteToPlay,
            !.score = clampedScore(ns),
            !.highScore = newHighScore(ns, state),
            !.multiplier = newMultiplier(state.consecutiveNoteCount),
            !.consecutiveNoteCount = newConsecutiveNoteCount(state, noteToPlay, missed)]

tick(state, noteToPlay) ==
    LET updated == updatedNotes(state, noteToPlay)
        missed == missedNotes(updated)
        ns == newScore(state, missed)
    IN  [state EXCEPT
            !.userNotes = activeNotes(updated),
            !.exitNotes = state.userNotes,
            !.playNote = noteToPlay,
            !.score = clampedScore(ns),
            !.highScore = newHighScore(ns, state),
            !.multiplier = newMultiplier(state.consecutiveNoteCount),
            !.consecutiveNoteCount = newConsecutiveNoteCount(state, noteToPlay, missed)]

---------------------------------------------------------------------------
(* The actions' apply functions *)

TickApply(s) == tick([s EXCEPT !.backgroundNote = Null], Null)

\* variant: the note is appended without running tick
SpawnNoteApply_noTick(s, note) ==
    [s EXCEPT !.userNotes = Append(s.userNotes, note), !.backgroundNote = Null]

\* variant: the note is put in front of userNotes
SpawnNoteApply_prepend(s, note) ==
    tick([s EXCEPT !.userNotes = <<note>> \o s.userNotes,
                   !.backgroundNote = Null], Null)

SpawnNoteApply(s, note) ==
    tick([s EXCEPT !.userNotes = Append(s.userNotes, note),
                   !.backgroundNote = Null], Null)

SpawnBackgroundNoteApply(s, note) ==
    tick([s EXCEPT !.backgroundNote = Some(note)], Null)

\* variant: the hit window includes the row MAX_Y - THRESHOLD_Y
validNotes_inclusive(s, column) ==
    SelectSeq(s.userNotes,
              LAMBDA note : note.cy >= (MAX_Y - THRESHOLD_Y) /\ note.column = column)

validNotes(s, column) ==
    SelectSeq(s.userNotes,
              LAMBDA note : note.cy > (MAX_Y - THRESHOLD_Y) /\ note.column = column)

\* variant: the award ignores the multiplier
awardedScore_flat(s) == s.score + SCORE_PER_CLICK

\* Math.floor(score + SCORE_PER_CLICK * multiplier), multiplier in tenths
awardedScore(s) == (10 * s.score + SCORE_PER_CLICK * s.multiplier) \div 10

generateRandomNote(seed) == [id |-> 0, column |-> RANDOM_COLUMN, cy |-> 0]

\* variant: the last candidate is played, not the first
ClickApply_lastCandidate(s, column) ==
    LET valid == validNotes(s, column)
    IN  IF Len(valid) > 0
        THEN tick([s EXCEPT !.backgroundNote = Null,
                            !.score = awardedScore(s)], Some(valid[Len(valid)]))
        ELSE tick([s EXCEPT !.backgroundNote = Null],
                  Some(generateRandomNote(column)))

ClickApply(s, column) ==
    LET valid == validNotes(s, column)
    IN  IF Len(valid) > 0
        THEN tick([s EXCEPT !.backgroundNote = Null,
                            !.score = awardedScore(s)], Some(valid[1]))
        ELSE tick([s EXCEPT !.backgroundNote = Null],
                  Some(generateRandomNote(column)))

\* variant: EndGame toggles the flag
EndGameApply_toggle(s) == [s EXCEPT !.gameEnd = ~s.gameEnd]

\* variant: EndGame also runs a tick
EndGameApply_ticking(s) == [TickApply(s) EXCEPT !.gameEnd = TRUE]

EndGameApply(s) == [s EXCEPT !.gameEnd = TRUE]

---------------------------------------------------------------------------
(* Inputs of the actions *)

Lanes == 0..MaxLane

\* cy of the notes handed to SpawnNote: the last rows above MAX_Y, MAX_Y
\* itself and one row past it (notes the caller should not pass, section 7)
SpawnCys == (MAX_Y - MaxFall - 1)..(MAX_Y + 1)

SpawnInputs == [id : 0..MaxId, column : Lanes, cy : SpawnCys]

BackgroundInputs == {[id |-> MaxId + 1, column |-> 0, cy |-> 0]}

FallNote == [id |-> 1, column |-> 0, cy |-> 0]

---------------------------------------------------------------------------
(* Initial states *)

\* The state at game start, and states of a game in progress between notes
Init ==
    /\ gameEnd = FALSE
    /\ userNotes = <<>>
    /\ exitNotes = <<>>
    /\ playNote = Null
    /\ backgroundNote = Null
    /\ score \in {0, 3}
    /\ highScore \in {score, score + 4}
    /\ consecutiveNoteCount \in {0, 9}
    /\ multiplier = newMultiplier(consecutiveNoteCount)
    /\ lastAction = "Init"
    /\ ticksSinceSpawn = 0

\* Any State value a caller may hand to the reducer, including notes already
\* at or past MAX_Y
InitAny ==
    /\ gameEnd \in BOOLEAN
    /\ userNotes \in {<<>>} \cup {<<[id |-> 1, column |-> 1, cy |-> c]>> :
                                     c \in (MAX_Y - 1)..(MAX_Y + 1)}
    /\ exitNotes = <<>>
    /\ playNote = Null
    /\ backgroundNote \in {Null} \cup {Some(n) : n \in BackgroundInputs}
    /\ score \in {0, 3, 7}
    /\ highScore = score + 1
    /\ consecutiveNoteCount \in {0, 5}
    /\ multiplier = 10
    /\ lastAction = "Init"
    /\ ticksSinceSpawn = 0

\* Game start of the round trip of one note
InitFall ==
    /\ gameEnd = FALSE
    /\ userNotes = <<>>
    /\ exitNotes = <<>>
    /\ playNote = Null
    /\ backgroundNote = Null
    /\ score = SCORE_PER_CLICK
    /\ highScore = SCORE_PER_CLICK
    /\ consecutiveNoteCount = 0
    /\ multiplier = 10
    /\ lastAction = "Init"
    /\ ticksSinceSpawn = 0

---------------------------------------------------------------------------
(* Actions: reduceState(s, action) = action.apply(s) *)

Tick ==
    /\ Becomes(TickApply(State))
    /\ lastAction' = "Tick"

SpawnNote ==
    /\ Len(userNotes) < MaxNotes
    /\ \E note \in SpawnInputs :
          /\ note.id \notin Ids(userNotes)
          /\ Becomes(SpawnNoteApply(State, note))
    /\ lastAction' = "SpawnNote"

SpawnBackgroundNote ==
    /\ \E note \in BackgroundInputs :
          Becomes(SpawnBackgroundNoteApply(State, note))
    /\ lastAction' = "SpawnBackgroundNote"

Click ==
    /\ score <= MaxScore
    /\ consecutiveNoteCount < MaxStreak
    /\ \E column \in Lanes : Becomes(ClickApply(State, column))
    /\ lastAction' = "Click"

EndGame ==
    /\ Becomes(EndGameApply(State))
    /\ lastAction' = "EndGame"

Next ==
    \/ Tick /\ UNCHANGED ticksSinceSpawn
    \/ SpawnNote /\ UNCHANGED ticksSinceSpawn
    \/ SpawnBackgroundNote /\ UNCHANGED ticksSinceSpawn
    \/ Click /\ UNCHANGED ticksSinceSpawn
    \/ EndGame /\ UNCHANGED ticksSinceSpawn

Spec == Init /\ [][Next]_vars

SpecAny == InitAny /\ [][Next]_vars

\* One note spawned at cy = 0 on an empty board, then only Tick
FallSpawn ==
    /\ userNotes = <<>>
    /\ Becomes(SpawnNoteApply(State, FallNote))
    /\ lastAction' = "SpawnNote"
    /\ ticksSinceSpawn' = 0

FallTick ==
    /\ lastAction # "Init"
    /\ ticksSinceSpawn <= MAX_Y
    /\ Tick
    /\ ticksSinceSpawn' = ticksSinceSpawn + 1

NextFall == FallSpawn \/ FallTick

SpecFall == InitFall /\ [][NextFall]_vars

---------------------------------------------------------------------------
(* One action applied to a State drawn from a set of boards, followed by   *)
(* one Tick: the actions as functions of their input                       *)

\* rows of the notes on the drawn boards: the last row outside the hit
\* window, the first row inside it, and the last two rows above MAX_Y
StepCys == {MAX_Y - THRESHOLD_Y, MAX_Y - THRESHOLD_Y + 1, MAX_Y - 2, MAX_Y - 1}

StepNotes == [id : 0..MaxId, column : Lanes, cy : StepCys]

\* userNotes of at most two notes with distinct ids
StepBoards ==
    {<<>>} \cup {<<n>> : n \in StepNotes}
           \cup {<<ab[1], ab[2]>> :
                   ab \in {p \in StepNotes \X StepNotes : p[1].id # p[2].id}}

InitStep ==
    /\ gameEnd = FALSE
    /\ userNotes \in StepBoards
    /\ exitNotes = <<>>
    /\ playNote = Null
    /\ backgroundNote = Null
    /\ score \in {0, 3, 100}
    /\ highScore = score
    /\ consecutiveNoteCount \in {0, 9, 10, 460}
    /\ multiplier = newMultiplier(consecutiveNoteCount)
    /\ lastAction = "Init"
    /\ ticksSinceSpawn = 0

\* Click without the bounds on score and streak
StepClick ==
    /\ \E column \in Lanes : Becomes(ClickApply(State, column))
    /\ lastAction' = "Click"

NextStep ==
    \/ lastAction = "Init" /\ Tick /\ UNCHANGED ticksSinceSpawn
    \/ lastAction = "Init" /\ SpawnNote /\ UNCHANGED ticksSinceSpawn
    \/ lastAction = "Init" /\ SpawnBackgroundNote /\ UNCHANGED ticksSinceSpawn
    \/ lastAction = "Init" /\ StepClick /\ UNCHANGED ticksSinceSpawn
    \/ lastAction = "Init" /\ EndGame /\ UNCHANGED ticksSinceSpawn
    \/ lastAction \notin {"Init", "Tick"} /\ Tick /\ UNCHANGED ticksSinceSpawn

SpecStep == InitStep /\ [][NextStep]_vars

---------------------------------------------------------------------------
(* A board that is no longer fed: no SpawnNote, the timer keeps ticking.   *)
(* ticksSinceSpawn counts the tick-based steps taken while notes remain.   *)

InitDrain ==
    /\ gameEnd = FALSE
    /\ userNotes \in StepBoards
    /\ exitNotes = <<>>
    /\ playNote = Null
    /\ backgroundNote = Null
    /\ score = 0
    /\ highScore = 0
    /\ consecutiveNoteCount = 0
    /\ multiplier = 10
    /\ lastAction = "Init"
    /\ ticksSinceSpawn = 0

Counted ==
    ticksSinceSpawn' = IF userNotes = <<>> THEN ticksSinceSpawn
                                           ELSE ticksSinceSpawn + 1

DrainTick == Tick /\ Counted

NextDrain ==
    \/ DrainTick
    \/ SpawnBackgroundNote /\ Counted
    \/ StepClick /\ Counted
    \/ EndGame /\ UNCHANGED ticksSinceSpawn

\* the periodic timer (TICK_RATE_MS) keeps delivering Tick
SpecDrain == InitDrain /\ [][NextDrain]_vars /\ WF_vars(DrainTick)

TickBased == {"Tick", "SpawnNote", "SpawnBackgroundNote", "Click"}

---------------------------------------------------------------------------
(* Properties *)

HasNote(seq, id) == \E i \in 1..Len(seq) : seq[i].id = id

\* a note of the sequence reaches row MAX_Y exactly when advanced one step
ReachesMaxY(seq) == \E i \in 1..Len(seq) : seq[i].cy + ANIMATION_PER_TICK = MAX_Y

\* C1: from a state with score >= 0, every state reached by any sequence of
\* Tick, SpawnNote, SpawnBackgroundNote, Click and EndGame has score >= 0.
C1_ScoreNonNegative == score >= 0

\* a Tick missed a note while the score was below SCORE_PER_CLICK
C1_Witness ==
    /\ lastAction = "Tick"
    /\ ReachesMaxY(exitNotes)
    /\ score = 0
    /\ highScore = 3

\* C2: from highScore >= score >= 0, every reached state has
\* highScore >= score, and no step lowers highScore.
C2_HighScore == [](highScore >= score) /\ [][highScore' >= highScore]_vars

\* a Click played one note while another note was missed in the same step
C2_Witness ==
    /\ lastAction = "Click"
    /\ playNote # Null
    /\ playNote[1].column # RANDOM_COLUMN
    /\ \E i \in 1..Len(exitNotes) :
          /\ exitNotes[i].id # playNote[1].id
          /\ exitNotes[i].cy + ANIMATION_PER_TICK = MAX_Y
    /\ highScore >= score

\* C3: every state produced by an action has multiplier >= 1 (10 tenths).
C3_MultiplierAtLeastOne == multiplier >= 10

\* a Tick computed the multiplier of a streak of 10
C3_Witness ==
    /\ lastAction = "Tick"
    /\ consecutiveNoteCount = 10
    /\ multiplier = 12

\* C4 as stated: the multiplier of every reachable state is the function of
\* that state's own consecutiveNoteCount (the function the initial states and
\* every idle tick fix: newMultiplier).
C4_Original == multiplier = newMultiplier(consecutiveNoteCount)

\* C4 (amended): after every tick-based action the multiplier is the
\* function newMultiplier of the consecutiveNoteCount of the state the action
\* was applied to, and EndGame leaves the multiplier unchanged.
C4_MultiplierOfPriorStreak ==
    [][/\ lastAction' \in TickBased => multiplier' = newMultiplier(consecutiveNoteCount)
       /\ lastAction' = "EndGame" => multiplier' = multiplier]_vars

\* a Click took the streak from 9 to 10 and the multiplier is still 1.0
C4_Witness ==
    /\ lastAction = "Click"
    /\ consecutiveNoteCount = 10
    /\ multiplier = 10

\* C5: after any Tick, SpawnNote, SpawnBackgroundNote or Click on any state,
\* userNotes holds no note with cy >= MAX_Y.
C5_NoNoteAtMaxY ==
    lastAction \in TickBased => \A i \in 1..Len(userNotes) : userNotes[i].cy < MAX_Y

\* SpawnNote was given a note with cy >= MAX_Y (exitNotes holds the notes
\* handed to tick, the spawned one included)
C5_Witness ==
    /\ lastAction = "SpawnNote"
    /\ \E i \in 1..Len(exitNotes) : exitNotes[i].cy >= MAX_Y
    /\ Len(userNotes) < Len(exitNotes)

\* C6: once gameEnd is true it stays true under every action.
C6_GameEndStays == [][gameEnd => gameEnd']_vars

\* a Click was applied after the game had ended
C6_Witness ==
    /\ gameEnd
    /\ lastAction = "Click"
    /\ playNote # Null

\* C7: EndGame yields gameEnd = true and leaves every other field as it was.
C7_EndGameFrame ==
    [][lastAction' = "EndGame" =>
          /\ gameEnd'
          /\ UNCHANGED <<userNotes, exitNotes, playNote, backgroundNote,
                         score, highScore, multiplier, consecutiveNoteCount>>]_vars

\* EndGame was applied to a state with notes, a background note and a score
C7_Witness ==
    /\ lastAction = "EndGame"
    /\ gameEnd
    /\ userNotes # <<>>
    /\ backgroundNote # Null
    /\ score > 0

\* C8 as stated: Tick on a state with empty userNotes and no backgroundNote
\* keeps userNotes empty and score, multiplier, consecutiveNoteCount and
\* gameEnd unchanged.
C8_Original ==
    [][(lastAction' = "Tick" /\ userNotes = <<>> /\ backgroundNote = Null) =>
          /\ userNotes' = <<>>
          /\ UNCHANGED <<score, multiplier, consecutiveNoteCount, gameEnd>>]_vars

\* C8 (amended): such a Tick keeps userNotes empty and score,
\* consecutiveNoteCount and gameEnd unchanged; the multiplier becomes the
\* value computed from consecutiveNoteCount, hence is unchanged only if it
\* already had that value.
C8_IdleTick ==
    [][(lastAction' = "Tick" /\ userNotes = <<>> /\ backgroundNote = Null) =>
          /\ userNotes' = <<>>
          /\ UNCHANGED <<score, consecutiveNoteCount, gameEnd>>
          /\ multiplier' = newMultiplier(consecutiveNoteCount)
          /\ (multiplier = newMultiplier(consecutiveNoteCount) => multiplier' = multiplier)]_vars

\* an idle Tick on an empty board raised the multiplier of a streak of 10
C8_Witness ==
    /\ lastAction = "Tick"
    /\ userNotes = <<>>
    /\ exitNotes = <<>>
    /\ backgroundNote = Null
    /\ consecutiveNoteCount = 10
    /\ multiplier = 12

\* C9 as stated: the note spawned with cy = 0 is in userNotes after fewer
\* than MAX_Y Tick applications following the spawn and dropped at the
\* MAX_Y-th.
C9_Original ==
    lastAction # "Init" => (HasNote(userNotes, FallNote.id) <=> ticksSinceSpawn < MAX_Y)

\* C9 (amended): SpawnNote itself advances the note to cy = 1, so the note is
\* in userNotes after fewer than MAX_Y - 1 Tick applications following the
\* spawn, with cy = 1 + the number of those Ticks, and is dropped by the
\* (MAX_Y - 1)-th Tick, whose exitNotes holds it at cy = MAX_Y - 1 (its
\* advanced cy is MAX_Y) and which counts it as missed.
C9_RoundTrip ==
    lastAction # "Init" =>
       /\ HasNote(userNotes, FallNote.id) <=> ticksSinceSpawn < MAX_Y - 1
       /\ HasNote(userNotes, FallNote.id) =>
             userNotes = <<[FallNote EXCEPT !.cy = ticksSinceSpawn + 1]>>
       /\ ticksSinceSpawn = MAX_Y - 1 =>
             /\ exitNotes = <<[FallNote EXCEPT !.cy = MAX_Y - 1]>>
             /\ userNotes = <<>>
             /\ consecutiveNoteCount = 0

\* the (MAX_Y - 1)-th Tick after the spawn has dropped the note
C9_Witness ==
    /\ lastAction = "Tick"
    /\ ticksSinceSpawn = MAX_Y - 1
    /\ HasNote(exitNotes, FallNote.id)
    /\ ~HasNote(userNotes, FallNote.id)

\* C10 as stated: Tick on a state whose userNotes holds one note with
\* cy = MAX_Y and consecutiveNoteCount = 5 removes the note, lowers the score
\* by SCORE_PER_CLICK (floored at 0) and resets consecutiveNoteCount to 0.
C10_Original ==
    [][(/\ lastAction' = "Tick"
        /\ Len(userNotes) = 1
        /\ userNotes[1].cy = MAX_Y
        /\ consecutiveNoteCount = 5) =>
          /\ userNotes' = <<>>
          /\ score' = Max(0, score - SCORE_PER_CLICK)
          /\ consecutiveNoteCount' = 0]_vars

\* C10 (amended): the same for one note with cy = MAX_Y - ANIMATION_PER_TICK,
\* the note that reaches MAX_Y in this step.
C10_MissedNote ==
    [][(/\ lastAction' = "Tick"
        /\ Len(userNotes) = 1
        /\ userNotes[1].cy = MAX_Y - ANIMATION_PER_TICK
        /\ consecutiveNoteCount = 5) =>
          /\ userNotes' = <<>>
          /\ score' = Max(0, score - SCORE_PER_CLICK)
          /\ consecutiveNoteCount' = 0]_vars

\* a Tick missed the only note, at cy = MAX_Y - 1, and took 5 off a score of 7
C10_Witness ==
    /\ lastAction = "Tick"
    /\ Len(exitNotes) = 1
    /\ exitNotes[1].cy = MAX_Y - ANIMATION_PER_TICK
    /\ userNotes = <<>>
    /\ score = 2
    /\ consecutiveNoteCount = 0

---------------------------------------------------------------------------
(* Properties of Click *)

\* the step is a Click on lane col
ClickedLane(col) == lastAction' = "Click" /\ State' = ClickApply(State, col)

\* indices of the notes of lane col inside the hit window
Candidates(col) ==
    {i \in 1..Len(userNotes) :
        userNotes[i].column = col /\ userNotes[i].cy > MAX_Y - THRESHOLD_Y}

FirstCandidate(col) ==
    CHOOSE i \in Candidates(col) : \A j \in Candidates(col) : i <= j

\* some note other than the one at index played reaches MAX_Y in this step
MissesBeside(played) ==
    \E i \in 1..Len(userNotes) :
        /\ userNotes[i].id # userNotes[played].id
        /\ userNotes[i].cy + ANIMATION_PER_TICK = MAX_Y

Advanced(note) == [note EXCEPT !.cy = @ + ANIMATION_PER_TICK]

\* C11: a Click on a lane with no candidate note yields a synthetic playNote
\* (column 5), leaves consecutiveNoteCount as it was, whatever its value and
\* whether or not notes are missed in the step, and does not raise the score.
C11_MissClick ==
    [][\A col \in Lanes :
          (ClickedLane(col) /\ Candidates(col) = {}) =>
             /\ playNote' # Null
             /\ playNote'[1].column = RANDOM_COLUMN
             /\ consecutiveNoteCount' = consecutiveNoteCount
             /\ score' <= score]_vars

\* a miss-click at streak 9, on a board with a note on the last row outside
\* the hit window and another note that is missed in the same step
C11_Witness ==
    /\ lastAction = "Click"
    /\ playNote # Null
    /\ playNote[1].column = RANDOM_COLUMN
    /\ consecutiveNoteCount = 9
    /\ ReachesMaxY(exitNotes)
    /\ \E i \in 1..Len(exitNotes) : exitNotes[i].cy = MAX_Y - THRESHOLD_Y

\* C12: a Click on a lane with no candidate leaves in userNotes exactly what
\* a plain Tick on the same state leaves, also when a real note has id 0.
C12_MissClickKeepsNotes ==
    [][\A col \in Lanes :
          (ClickedLane(col) /\ Candidates(col) = {}) =>
             userNotes' = TickApply(State).userNotes]_vars

\* C13: a Click that finds a candidate, in a step where no note is missed,
\* raises score by floor(SCORE_PER_CLICK * multiplier) of the prior state and
\* consecutiveNoteCount by 1; the multiplier of the result is that of the
\* prior streak, and the Tick after it shows the multiplier of the new streak
\* (9 -> 10: 1.0 after the Click, 1.2 after the Tick).
C13_HitAward ==
    /\ [][\A col \in Lanes :
            (/\ ClickedLane(col)
             /\ Candidates(col) # {}
             /\ ~MissesBeside(FirstCandidate(col))) =>
               /\ score' = score + ((SCORE_PER_CLICK * multiplier) \div 10)
               /\ consecutiveNoteCount' = consecutiveNoteCount + 1
               /\ multiplier' = newMultiplier(consecutiveNoteCount)
               /\ consecutiveNoteCount = 9 => multiplier' = 10]_vars
    /\ [][(lastAction = "Click" /\ lastAction' = "Tick") =>
               /\ multiplier' = newMultiplier(consecutiveNoteCount)
               /\ consecutiveNoteCount = 10 => multiplier' = 12]_vars

\* score 100, streak 9: the Click gave 105 and streak 10, and the Tick after
\* it shows the multiplier 1.2
C13_Witness ==
    /\ lastAction = "Tick"
    /\ score = 105
    /\ consecutiveNoteCount = 10
    /\ multiplier = 12

\* C14: when a Click finds several candidates, the played note is the one
\* earliest in userNotes, and every other candidate stays in userNotes,
\* advanced one step, unless it reaches MAX_Y.
C14_FirstCandidateWins ==
    [][\A col \in Lanes :
          (ClickedLane(col) /\ Cardinality(Candidates(col)) > 1) =>
             /\ playNote' = Some(userNotes[FirstCandidate(col)])
             /\ \A j \in Candidates(col) \ {FirstCandidate(col)} :
                   IF userNotes[j].cy + ANIMATION_PER_TICK < MAX_Y
                   THEN \E k \in 1..Len(userNotes') :
                           userNotes'[k] = Advanced(userNotes[j])
                   ELSE ~HasNote(userNotes', userNotes[j].id)]_vars

\* the played note was further from MAX_Y than the candidate that stays
C14_Witness ==
    /\ lastAction = "Click"
    /\ playNote # Null
    /\ Len(userNotes) = 1
    /\ userNotes[1].column = playNote[1].column
    /\ playNote[1].cy + ANIMATION_PER_TICK < userNotes[1].cy

---------------------------------------------------------------------------
(* Properties of the core tick transition.  In the state after a tick-based *)
(* step, exitNotes holds the notes handed to tick and playNote the note     *)
(* handed to it as played (C15, C11, C14).                                  *)

\* number of notes handed to tick, other than the played one, that reach
\* MAX_Y exactly when advanced one step
MissedCount(board, played) ==
    Cardinality({i \in 1..Len(board) :
                    /\ played = Null \/ board[i].id # played[1].id
                    /\ board[i].cy + ANIMATION_PER_TICK = MAX_Y})

\* the notes of seq that stay below MAX_Y, advanced one step, in order
AdvancedActive(seq) ==
    LET kept == SelectSeq(seq, LAMBDA n : n.cy + ANIMATION_PER_TICK < MAX_Y)
    IN  [i \in 1..Len(kept) |-> Advanced(kept[i])]

\* C15 as stated: after a tick-based action no note of exitNotes is in
\* userNotes.
C15_Original ==
    lastAction \in TickBased =>
       \A i \in 1..Len(exitNotes) : ~HasNote(userNotes, exitNotes[i].id)

\* C15 (amended): after a tick-based action exitNotes is the userNotes handed
\* to the core tick (the prior userNotes, followed by the spawned note after
\* SpawnNote), at their pre-step cy: it holds every note that left userNotes
\* in this step and also the notes that remain, which are in userNotes
\* advanced one step.
C15_ExitNotes ==
    [][lastAction' \in TickBased =>
          /\ lastAction' # "SpawnNote" => exitNotes' = userNotes
          /\ lastAction' = "SpawnNote" =>
                /\ Len(exitNotes') = Len(userNotes) + 1
                /\ SubSeq(exitNotes', 1, Len(userNotes)) = userNotes
          /\ \A i \in 1..Len(userNotes') : HasNote(exitNotes', userNotes'[i].id)
          /\ \A i \in 1..Len(exitNotes') :
                \/ ~HasNote(userNotes', exitNotes'[i].id)
                \/ \E k \in 1..Len(userNotes') :
                      userNotes'[k] = Advanced(exitNotes'[i])]_vars

\* exitNotes holds a note that left userNotes and a note that is still in it
C15_Witness ==
    /\ lastAction \in TickBased
    /\ \E i \in 1..Len(exitNotes) : ~HasNote(userNotes, exitNotes[i].id)
    /\ \E i \in 1..Len(exitNotes) : HasNote(userNotes, exitNotes[i].id)

\* C16: after every tick-based action the multiplier is
\* max(1, 1 + 0.2 * floor(c / 10)) of the prior consecutiveNoteCount c, with
\* no upper limit on c (in tenths: max(10, 10 + 2 * floor(c / 10))).
C16_MultiplierTiers ==
    [][lastAction' \in TickBased =>
          multiplier' = Max(10, 10 + 2 * (consecutiveNoteCount \div 10))]_vars

\* C17: in a tick with no played note or a played note that is not synthetic,
\* the streak becomes prior + 1 (played) or stays (nothing played) when no
\* note reaches MAX_Y, and becomes 1 (played) or 0 (nothing played) when at
\* least one does.
C17_StreakUpdate ==
    [][(/\ lastAction' \in TickBased
        /\ playNote' = Null \/ playNote'[1].column # RANDOM_COLUMN) =>
          consecutiveNoteCount' =
             IF MissedCount(exitNotes', playNote') = 0
             THEN (IF playNote' # Null THEN consecutiveNoteCount + 1
                                       ELSE consecutiveNoteCount)
             ELSE (IF playNote' # Null THEN 1 ELSE 0)]_vars

\* a Click played a note while another note reached MAX_Y: the streak is 1
C17_Witness ==
    /\ lastAction = "Click"
    /\ playNote # Null
    /\ playNote[1].column # RANDOM_COLUMN
    /\ MissedCount(exitNotes, playNote) = 1
    /\ consecutiveNoteCount = 1
    /\ score = 100

C19_SpawnAppends ==
    [][\A note \in SpawnInputs :
          (/\ lastAction' = "SpawnNote"
           /\ State' = SpawnNoteApply(State, note)
           /\ note.cy + ANIMATION_PER_TICK < MAX_Y) =>
             /\ userNotes' = Append(AdvancedActive(userNotes), Advanced(note))
             /\ backgroundNote' = Null
             /\ playNote' = Null]_vars

\* a note was spawned behind a note that stays on the board
C19_Witness ==
    /\ lastAction = "SpawnNote"
    /\ Len(userNotes) = 2
    /\ Len(exitNotes) = 2
    /\ userNotes[1] = Advanced(exitNotes[1])
    /\ userNotes[2] = Advanced(exitNotes[2])
    /\ userNotes[2].cy < userNotes[1].cy

\* C20: with Tick applied again and again and no further SpawnNote, userNotes
\* eventually becomes and stays empty, whatever Clicks, SpawnBackgroundNotes
\* and EndGames are interleaved; a note that started at cy0 is in userNotes
\* only at rows cy0 + (tick-based steps taken) below MAX_Y, so for fewer than
\* MAX_Y - cy0 tick-based steps.
C20_BoardDrains ==
    /\ <>[](userNotes = <<>>)
    /\ [](\A i \in 1..Len(userNotes) :
             LET cy0 == userNotes[i].cy - ticksSinceSpawn * ANIMATION_PER_TICK
             IN  /\ cy0 \in StepCys
                 /\ ticksSinceSpawn < MAX_Y - cy0)

\* the board has been emptied by ticks alone: the note from the last row
\* outside the hit window took THRESHOLD_Y tick-based steps
C20_Witness ==
    /\ userNotes = <<>>
    /\ ticksSinceSpawn = THRESHOLD_Y
    /\ lastAction = "Tick"
    /\ Len(exitNotes) = 1
    /\ exitNotes[1].cy + ANIMATION_PER_TICK = MAX_Y

====
